---- MODULE Spec2Model ----
(***************************************************************************)
(* USB command line interpreter (usbd_cli.c, usbd_cli_commands.c).         *)
(*                                                                         *)
(* The interpreter is two entry points over static storage: CLI_Input      *)
(* appends bytes to CommandBuffer and dispatches a completed line,         *)
(* CLI_Output returns the next output fragment according to CLI_Status.    *)
(* Bytes are one-character strings, C arrays are functions over            *)
(* 0..size-1, pointers are records [base, off], CLI_Status is the set of   *)
(* the bit positions that are set.                                         *)
(***************************************************************************)
EXTENDS Integers, Sequences, FiniteSets, TLC

(***************************************************************************)
(* Configuration (usbd_cli.h is not part of the sources): sizes of the     *)
(* two buffers, the newline and the prompt string.                         *)
(***************************************************************************)
CLI_COMMAND_LENGTH == 12

CLI_RESPONSE_LENGTH == 32

NUL == "\\0"

CR == "\r"

LF == "\n"

SP == " "

TAB == "\t"

CLI_STRING_NEWLINE == <<CR, LF>>

CLI_STRING_PROMPT == <<">">>

(***************************************************************************)
(* Message strings, part_000 lines 16-19.                                  *)
(***************************************************************************)
STRING_CMD_OVERFLOW == <<"E", "r", "r", "o", "r", " ", ":", " ", "C", "o", "m", "m", "a", "n", "d", " ", "b", "u", "f", "f", "e", "r", " ", "o", "v", "e", "r", "f", "l", "o", "w", ".">>

STRING_OTHER == <<"E", "r", "r", "o", "r", " ", ":", " ", "U", "n", "e", "x", "p", "e", "c", "t", "e", "d", " ", "p", "r", "o", "b", "l", "e", "m", " ", "o", "c", "c", "u", "r", "e", "d", ".">>

STRING_CMD_NOTFOUND == <<"E", "r", "r", "o", "r", " ", ":", " ", "C", "o", "m", "m", "a", "n", "d", " ", "n", "o", "t", " ", "f", "o", "u", "n", "d", ".">>

STRING_ARG_INVALID == <<"E", "r", "r", "o", "r", " ", ":", " ", "A", "r", "g", "u", "m", "e", "n", "t", " ", "i", "n", "v", "a", "l", "i", "d", ".">>

ERRNO_CMD_NOTFOUND == 0

ERRNO_ARG_INVALID == 1

(***************************************************************************)
(* Flags of CLI_Status, part_000 lines 26-33, as sets of bit positions.    *)
(***************************************************************************)
CLI_STATUS_ECHO == {0}

CLI_STATUS_NEWLINE == {1}

CLI_STATUS_PROMPT == {2}

CLI_STATUS_RESPONSE == {3}

CLI_STATUS_BREAK == {4}

CLI_STATUS_BUSY == {5}

CLI_STATUS_CMDOVF == {8}

CLI_STATUS_ERROR_MASK == {8, 9, 10, 11}

Uint16Bits == 0..15

IS_STATUS(status, flag) == flag \subseteq status

IS_ANY_STATUS(status, flag) == (status \cap flag) # {}

SET_STATUS(status, flag) == status \cup flag

CLEAR_STATUS(status, flag) == status \ flag

UPDATE_STATUS(status, sflag, cflag) == (status \ cflag) \cup sflag

\* 0x20..0x7E; 0x60 cannot be written in a string literal and is named.
GRAVE == "0x60"

Printable == {" ", "!", "\"", "#", "$", "%", "&", "'", "(", ")", "*", "+", ",", "-", ".", "/", "0", "1", "2", "3", "4", "5", "6", "7", "8", "9", ":", ";", "<", "=", ">", "?", "@", "A", "B", "C", "D", "E", "F", "G", "H", "I", "J", "K", "L", "M", "N", "O", "P", "Q", "R", "S", "T", "U", "V", "W", "X", "Y", "Z", "[", "\\", "]", "^", "_", GRAVE, "a", "b", "c", "d", "e", "f", "g", "h", "i", "j", "k", "l", "m", "n", "o", "p", "q", "r", "s", "t", "u", "v", "w", "x", "y", "z", "{", "|", "}", "~"}

\* Variant: every byte is accepted.
IS_CHAR_VALID_any(char) == TRUE

IS_CHAR_VALID(char) == (char = CR) \/ (char = LF) \/ (char \in Printable)

(***************************************************************************)
(* Pointers and C strings.                                                 *)
(***************************************************************************)
NULL == [base |-> "NULL", off |-> 0]

Ptr(base, off) == [base |-> base, off |-> off]

ZeroFilled(size) == [i \in 0..(size - 1) |-> NUL]

\* memcpy of the sequence src to arr[off], arr[off+1], ...
Store(arr, off, src) ==
  [i \in DOMAIN arr |-> IF off <= i /\ i < off + Len(src) THEN src[i - off + 1] ELSE arr[i]]

RECURSIVE strlen(_, _, _)
\* strlen(&arr[off]); size is the array's size, where the scan of an
\* unterminated array would leave it.
strlen(arr, size, off) ==
  IF off >= size \/ arr[off] = NUL THEN 0 ELSE 1 + strlen(arr, size, off + 1)

\* The C string at &arr[off], as a sequence of bytes.
CStr(arr, size, off) == [i \in 1..strlen(arr, size, off) |-> arr[off + i - 1]]

\* strstr(arr, needle): the offset of the first occurrence, as a set of
\* at most one offset (empty: NULL).
strstr(arr, size, needle) ==
  LET n == strlen(arr, size, 0)
      hits == {i \in 0..(n - Len(needle)) :
                 \A j \in 1..Len(needle) : arr[i + j - 1] = needle[j]}
  IN  IF hits = {} THEN {} ELSE {CHOOSE i \in hits : \A k \in hits : i <= k}

\* strchr(&arr[off], char)
strchr(arr, size, off, char) ==
  LET n == strlen(arr, size, off)
      hits == {i \in off..(off + n - 1) : arr[i] = char}
  IN  IF hits = {} THEN {} ELSE {CHOOSE i \in hits : \A k \in hits : i <= k}

(***************************************************************************)
(* usbd_cli_commands.c                                                     *)
(***************************************************************************)
Alphabet26 == <<"a", "b", "c", "d", "e", "f", "g", "h", "i", "j", "k", "l", "m", "n", "o", "p", "q", "r", "s", "t", "u", "v", "w", "x", "y", "z">>

\* int8_t TEST(uint8_t* pArg, uint8_t* pRes)
TEST(pArg, pRes) ==
  IF pArg # NULL
    THEN [result |-> "CLI_RESULT_INVALID", pRes |-> pRes]
    ELSE [result |-> "CLI_RESULT_OK", pRes |-> Store(pRes, 0, Alphabet26)]

CommandSet == << [name |-> <<"G", "E", "T", "_", "L", "O", "G">>, command |-> "TEST"] >>

NumOfCommands == Len(CommandSet)

(***************************************************************************)
(* Private functions of usbd_cli.c                                         *)
(***************************************************************************)
RECURSIVE StrTrim(_, _)
\* Strip leading spaces: the offset the pointer is advanced to.
StrTrim(arr, p) ==
  IF p < CLI_COMMAND_LENGTH /\ arr[p] = SP THEN StrTrim(arr, p + 1) ELSE p

RECURSIVE StrTrimRLoop(_, _, _)
StrTrimRLoop(arr, pStr, pEnd) ==
  IF pStr < pEnd
    THEN IF arr[pEnd - 1] = SP
           THEN StrTrimRLoop([arr EXCEPT ![pEnd - 1] = NUL], pStr, pEnd - 1)
           ELSE arr
    ELSE arr

\* Strip trailing spaces: the array after the writes.
StrTrimR(arr, pStr) ==
  StrTrimRLoop(arr, pStr, pStr + strlen(arr, CLI_COMMAND_LENGTH, pStr))

\* sizeof(message) bytes are copied: the message and its terminator.
\* Variant: the two messages are exchanged.
ResponseError_swapped(pRes, ErrNo) ==
  IF ErrNo = ERRNO_CMD_NOTFOUND
    THEN Store(pRes, 0, Append(STRING_ARG_INVALID, NUL))
    ELSE IF ErrNo = ERRNO_ARG_INVALID
           THEN Store(pRes, 0, Append(STRING_CMD_NOTFOUND, NUL))
           ELSE pRes

ResponseError(pRes, ErrNo) ==
  IF ErrNo = ERRNO_CMD_NOTFOUND
    THEN Store(pRes, 0, Append(STRING_CMD_NOTFOUND, NUL))
    ELSE IF ErrNo = ERRNO_ARG_INVALID
           THEN Store(pRes, 0, Append(STRING_ARG_INVALID, NUL))
           ELSE pRes

ResponseError_CmdNotFound(pArg, pRes) ==
  [result |-> "CLI_RESULT_OK", pRes |-> ResponseError(pRes, ERRNO_CMD_NOTFOUND)]

\* Variant: the buffer counts as full one byte earlier.
Overflowed_early(idx) == CLI_COMMAND_LENGTH <= idx + 1

\* Variant: the buffer counts as full one byte later.
Overflowed_late(idx) == CLI_COMMAND_LENGTH < idx

\* The test after each stored byte, line 278.
Overflowed(idx) == CLI_COMMAND_LENGTH <= idx

RECURSIVE BufferInputLoop(_, _, _, _)
BufferInputLoop(buf, idx, pInput, i) ==
  IF i > Len(pInput)
    THEN [CommandBuffer |-> buf, CmdBufIdxIn |-> idx, result |-> "CLI_RESULT_OK"]
    ELSE IF IS_CHAR_VALID(pInput[i])
           THEN LET stored == [buf EXCEPT ![idx] = pInput[i]]
                IN  IF Overflowed(idx + 1)
                      THEN [CommandBuffer |-> stored, CmdBufIdxIn |-> idx + 1,
                            result |-> "CLI_RESULT_FAIL"]
                      ELSE BufferInputLoop(stored, idx + 1, pInput, i + 1)
           ELSE BufferInputLoop(buf, idx, pInput, i + 1)

\* Variant: every call writes from the start of the buffer.
BufferInput_restart(buf, idx, pInput) == BufferInputLoop(buf, 0, pInput, 1)

BufferInput(buf, idx, pInput) == BufferInputLoop(buf, idx, pInput, 1)

\* Variant: the first matching entry is kept.
SeekCommand_first(set, name, i, Command) ==
  IF \E k \in i..Len(set) : set[k].name = name
    THEN set[CHOOSE k \in i..Len(set) :
               set[k].name = name /\ \A m \in i..(k - 1) : set[m].name # name].command
    ELSE Command

RECURSIVE SeekCommand(_, _, _, _)
\* The loop of InvokeCommand over the table: every entry is compared, a
\* later match replaces an earlier one.
SeekCommand(set, name, i, Command) ==
  IF i > Len(set)
    THEN Command
    ELSE SeekCommand(set, name, i + 1,
                     IF set[i].name = name THEN set[i].command ELSE Command)

CallCommand(Command, pArg, pRes) ==
  IF Command = "TEST" THEN TEST(pArg, pRes) ELSE ResponseError_CmdNotFound(pArg, pRes)

\* InvokeCommand on the terminated line in buf. call is the handler call
\* made (none for an empty command): the handler, the command string, the
\* argument string (<<>> with pArg NULL) and the result.
InvokeCommand(buf, resp) ==
  LET pCmd == StrTrim(buf, 0)
      trimmed == StrTrimR(buf, pCmd)
  IN  IF strlen(trimmed, CLI_COMMAND_LENGTH, pCmd) = 0
        THEN [CommandBuffer |-> trimmed,
              ResponseBuffer |-> [resp EXCEPT ![0] = NUL],
              call |-> <<>>]
        ELSE LET sp == strchr(trimmed, CLI_COMMAND_LENGTH, pCmd, SP)
                 split == IF sp = {} THEN trimmed
                          ELSE [trimmed EXCEPT ![CHOOSE i \in sp : TRUE] = NUL]
                 pArg == IF sp = {} THEN NULL
                         ELSE Ptr("CommandBuffer", StrTrim(split, (CHOOSE i \in sp : TRUE) + 1))
                 name == CStr(split, CLI_COMMAND_LENGTH, pCmd)
                 Command == SeekCommand(CommandSet, name, 1, "ResponseError_CmdNotFound")
                 ran == CallCommand(Command, pArg, resp)
                 written == IF ran.result = "CLI_RESULT_INVALID"
                              THEN ResponseError(ran.pRes, ERRNO_ARG_INVALID)
                              ELSE ran.pRes
             IN  [CommandBuffer |-> split,
                  ResponseBuffer |-> [written EXCEPT ![CLI_RESPONSE_LENGTH - 1] = NUL],
                  call |-> << [command |-> Command,
                               name |-> name,
                               pArg |-> pArg,
                               arg |-> IF pArg = NULL THEN <<>>
                                       ELSE CStr(split, CLI_COMMAND_LENGTH, pArg.off),
                               result |-> ran.result] >>]

\* Variant: the indices are reset, the buffers are not cleared.
ResetBuffer_nomemset(st) == [st EXCEPT !.CmdBufIdxIn = 0, !.CmdBufIdxOut = 0]

ResetBuffer(st) ==
  [st EXCEPT !.CmdBufIdxIn = 0,
             !.CmdBufIdxOut = 0,
             !.CommandBuffer = ZeroFilled(CLI_COMMAND_LENGTH),
             !.ResponseBuffer = ZeroFilled(CLI_RESPONSE_LENGTH)]

(***************************************************************************)
(* Private variables of usbd_cli.c, part_000 lines 61-73.                  *)
(***************************************************************************)
String_Newline == CLI_STRING_NEWLINE

String_Prompt == CLI_STRING_PROMPT

ErrorMessage_CmdOvf == STRING_CMD_OVERFLOW

ErrorMessage_Other == STRING_OTHER

ErrorMessage_CmdNotFound == STRING_CMD_NOTFOUND

ErrorMessage_ArgInvalid == STRING_ARG_INVALID

VARIABLES
  CommandBuffer,    \* uint8_t[CLI_COMMAND_LENGTH]
  ResponseBuffer,   \* uint8_t[CLI_RESPONSE_LENGTH]
  CmdBufIdxIn,      \* index of CommandBuffer to insert
  CmdBufIdxOut,     \* index of CommandBuffer to echo
  CLI_Status,       \* status flags
  pResponse,        \* pointer of buffer to send
  cycle,            \* observer: the line being assembled since CommandBuffer was last empty
  frags,            \* observer: what CLI_Output returned since the last accepted CLI_Input
  lastCall,         \* observer: the call that led to this state
  table,            \* the command table of the build (CommandSet)
  sought            \* observer: the last lookup in the table and its outcome

prog == <<CommandBuffer, ResponseBuffer, CmdBufIdxIn, CmdBufIdxOut, CLI_Status, pResponse>>

vars == <<CommandBuffer, ResponseBuffer, CmdBufIdxIn, CmdBufIdxOut, CLI_Status, pResponse,
          cycle, frags, lastCall, table, sought>>

State ==
  [CommandBuffer |-> CommandBuffer, ResponseBuffer |-> ResponseBuffer,
   CmdBufIdxIn |-> CmdBufIdxIn, CmdBufIdxOut |-> CmdBufIdxOut,
   CLI_Status |-> CLI_Status, pResponse |-> pResponse]

\* Static storage is zero-initialised.
InitState ==
  [CommandBuffer |-> ZeroFilled(CLI_COMMAND_LENGTH),
   ResponseBuffer |-> ZeroFilled(CLI_RESPONSE_LENGTH),
   CmdBufIdxIn |-> 0, CmdBufIdxOut |-> 0,
   CLI_Status |-> {}, pResponse |-> NULL]

\* The bytes a returned pointer designates when it is returned.
Deref(st, p) ==
  CASE p.base = "CommandBuffer" -> CStr(st.CommandBuffer, CLI_COMMAND_LENGTH, p.off)
    [] p.base = "ResponseBuffer" -> CStr(st.ResponseBuffer, CLI_RESPONSE_LENGTH, p.off)
    [] p.base = "String_Newline" -> String_Newline
    [] p.base = "String_Prompt" -> String_Prompt
    [] p.base = "ErrorMessage_CmdOvf" -> ErrorMessage_CmdOvf
    [] p.base = "ErrorMessage_Other" -> ErrorMessage_Other
    [] OTHER -> <<>>

(***************************************************************************)
(* Exported functions                                                      *)
(***************************************************************************)
\* Variant: input is refused only when it is empty.
InputIgnored_len0(status, length) == length = 0

\* The guard of CLI_Input, line 88.
InputIgnored(status, length) == IS_STATUS(status, CLI_STATUS_BUSY) \/ length = 0

\* Variant: the echo branch also returns a fragment when nothing is left.
EchoPending_le(out, in) == out <= in

\* The test of the echo branch, line 139.
EchoPending(out, in) == out < in

\* Variant: the response is skipped whatever was echoed.
NextAfterEcho_prompt(len) == CLI_STATUS_PROMPT

\* The status that follows the echo of a completed line, line 145.
NextAfterEcho(len) == IF 0 < len THEN CLI_STATUS_RESPONSE ELSE CLI_STATUS_PROMPT

\* int8_t CLI_Input(uint8_t* pInput, uint16_t length): the state after the
\* call, the value returned, the path taken and the handler call made.
CLI_InputStep(st, pInput) ==
  IF InputIgnored(st.CLI_Status, Len(pInput))
    THEN [st |-> st, ret |-> "USBD_OK", path |-> "ignored", call |-> <<>>]
    ELSE
      LET b == BufferInput(st.CommandBuffer, st.CmdBufIdxIn, pInput)
          s1 == [st EXCEPT !.CommandBuffer = b.CommandBuffer,
                           !.CmdBufIdxIn = b.CmdBufIdxIn]
      IN  IF b.result # "CLI_RESULT_OK"
            THEN [st |-> [s1 EXCEPT !.CLI_Status =
                             SET_STATUS(@, CLI_STATUS_BUSY \cup CLI_STATUS_CMDOVF)],
                  ret |-> "USBD_OK", path |-> "overflow", call |-> <<>>]
            ELSE
              LET pNL == strstr(s1.CommandBuffer, CLI_COMMAND_LENGTH, String_Newline)
              IN  IF pNL = {}
                    THEN [st |-> s1, ret |-> "USBD_OK", path |-> "buffered", call |-> <<>>]
                    ELSE
                      LET terminated == [s1.CommandBuffer EXCEPT ![CHOOSE i \in pNL : TRUE] = NUL]
                          inv == InvokeCommand(terminated, s1.ResponseBuffer)
                      IN  [st |-> [s1 EXCEPT !.CommandBuffer = inv.CommandBuffer,
                                             !.ResponseBuffer = inv.ResponseBuffer,
                                             !.pResponse = Ptr("ResponseBuffer", 0),
                                             !.CLI_Status =
                                               SET_STATUS(@, CLI_STATUS_BUSY \cup CLI_STATUS_BREAK)],
                           ret |-> "USBD_OK", path |-> "dispatched", call |-> inv.call]

\* uint8_t* CLI_Output(void): the state after the call, the pointer
\* returned and the branch taken.  error_status is the value the local of
\* that name holds when no branch assigns it.
CLI_OutputStep(st, error_status) ==
  IF IS_ANY_STATUS(st.CLI_Status, CLI_STATUS_ERROR_MASK)
    THEN
      LET ovf == IS_STATUS(st.CLI_Status, CLI_STATUS_CMDOVF)
      IN  [st |-> [st EXCEPT !.pResponse = IF ovf THEN Ptr("ErrorMessage_CmdOvf", 0) ELSE @,
                             !.CLI_Status =
                               UPDATE_STATUS(@, CLI_STATUS_RESPONSE \cup CLI_STATUS_NEWLINE,
                                             (IF ovf THEN CLI_STATUS_CMDOVF ELSE error_status)
                                               \cup CLI_STATUS_ECHO)],
           pOutput |-> NULL, branch |-> "error"]
  ELSE IF IS_STATUS(st.CLI_Status, CLI_STATUS_ECHO)
    THEN
      IF EchoPending(st.CmdBufIdxOut, st.CmdBufIdxIn)
        THEN
          LET len == strlen(st.CommandBuffer, CLI_COMMAND_LENGTH, st.CmdBufIdxOut)
              next_status == NextAfterEcho(len)
          IN  [st |-> [st EXCEPT !.CmdBufIdxOut = (@ + len) % 65536,
                                 !.CLI_Status =
                                   IF IS_STATUS(@, CLI_STATUS_BREAK)
                                     THEN UPDATE_STATUS(@, next_status \cup CLI_STATUS_NEWLINE,
                                                        CLI_STATUS_ECHO \cup CLI_STATUS_BREAK)
                                     ELSE @],
               pOutput |-> Ptr("CommandBuffer", st.CmdBufIdxOut), branch |-> "echo"]
        ELSE [st |-> st, pOutput |-> NULL, branch |-> "echo"]
  ELSE IF IS_STATUS(st.CLI_Status, CLI_STATUS_NEWLINE)
    THEN [st |-> [st EXCEPT !.CLI_Status = CLEAR_STATUS(@, CLI_STATUS_NEWLINE)],
          pOutput |-> Ptr("String_Newline", 0), branch |-> "newline"]
  ELSE IF IS_STATUS(st.CLI_Status, CLI_STATUS_RESPONSE)
    THEN [st |-> [st EXCEPT !.CLI_Status =
                     UPDATE_STATUS(@, CLI_STATUS_NEWLINE \cup CLI_STATUS_PROMPT,
                                   CLI_STATUS_RESPONSE)],
          pOutput |-> st.pResponse, branch |-> "response"]
  ELSE IF IS_STATUS(st.CLI_Status, CLI_STATUS_PROMPT)
    THEN [st |-> [ResetBuffer(st) EXCEPT !.CLI_Status =
                     UPDATE_STATUS(@, CLI_STATUS_ECHO,
                                   CLI_STATUS_PROMPT \cup CLI_STATUS_BUSY)],
          pOutput |-> Ptr("String_Prompt", 0), branch |-> "prompt"]
  ELSE [st |-> [st EXCEPT !.pResponse = Ptr("ErrorMessage_Other", 0),
                          !.CLI_Status =
                            SET_STATUS(@, CLI_STATUS_RESPONSE \cup CLI_STATUS_NEWLINE
                                            \cup CLI_STATUS_BUSY)],
        pOutput |-> NULL, branch |-> "unexpected"]

(***************************************************************************)
(* The host.  It sends lines of Streams, each cut into CLI_Input calls at  *)
(* any positions, calls CLI_Input while the interpreter is busy, and polls *)
(* CLI_Output at any time.                                                 *)
(***************************************************************************)
Fill(n) == [i \in 1..n |-> "x"]

\* Terminated lines: empty and blank lines, the registered command bare,
\* padded and with an argument, names that differ from it by one byte,
\* unregistered names.
Lines ==
  { String_Newline,
    <<SP>> \o String_Newline,
    <<SP, SP>> \o String_Newline,
    <<"G", "E", "T", "_", "L", "O", "G">> \o String_Newline,
    <<SP, "G", "E", "T", "_", "L", "O", "G", SP>> \o String_Newline,
    <<"G", "E", "T", "_", "L", "O", "G", SP, "x">> \o String_Newline,
    <<"G", "E", "T", "_", "L", "O", "G", "S">> \o String_Newline,
    <<"G", "E", "T", "_", "L", "O">> \o String_Newline,
    <<"x">> \o String_Newline,
    <<"x", SP, SP, "y", SP, "z">> \o String_Newline }

\* Lines around the capacity of CommandBuffer, and a run without newline.
LongLines ==
  { Fill(n) \o String_Newline : n \in (CLI_COMMAND_LENGTH - 3)..(CLI_COMMAND_LENGTH - 1) }
    \cup { Fill(CLI_COMMAND_LENGTH + 1),
           <<"x">> \o String_Newline \o Fill(CLI_COMMAND_LENGTH - 2) }

\* Lines with a lone CR or LF, and with a byte that is not accepted.
OddLines ==
  { <<"x", CR, "x", CR, LF>>, <<LF, CR, LF>>,
    <<"G", "E", "T", TAB, "_", "L", "O", "G", CR, LF>>, <<TAB, CR, LF>> }

Streams == Lines \cup LongLines \cup OddLines

IsPrefix(a, b) == Len(a) <= Len(b) /\ SubSeq(b, 1, Len(a)) = a

\* The bytes of the line passed so far (none once CLI_Output has reset the
\* buffers).
Fed == IF cycle.closed THEN <<>> ELSE cycle.fed

\* What the host may pass next: nothing, or the next bytes of a line that
\* continues what it has passed; anything while the interpreter is busy.
Offered ==
  IF IS_STATUS(CLI_Status, CLI_STATUS_BUSY)
    THEN { <<>>, <<"x">>, String_Newline }
    ELSE { <<>> } \cup
         UNION { { SubSeq(s, Len(Fed) + 1, k) : k \in Len(Fed)..Len(s) } :
                 s \in { t \in Streams : IsPrefix(Fed, t) } }

\* fed: the bytes of the accepted calls; origin: CLI_Status when the first
\* of them was made; overflow: a call overflowed; dispatch: the dispatches
\* made; closed: CLI_Output has reset the buffers since.
NoCycle ==
  [fed |-> <<>>, origin |-> {}, overflow |-> FALSE, dispatch |-> <<>>, closed |-> FALSE]

\* returned: the array the returned pointer points into.
NoLookup == [name |-> <<>>, command |-> "none"]

NoCall == [op |-> "none", path |-> "none", ret |-> "none", returned |-> "none"]

Init ==
  /\ CommandBuffer = InitState.CommandBuffer
  /\ ResponseBuffer = InitState.ResponseBuffer
  /\ CmdBufIdxIn = InitState.CmdBufIdxIn
  /\ CmdBufIdxOut = InitState.CmdBufIdxOut
  /\ CLI_Status = InitState.CLI_Status
  /\ pResponse = InitState.pResponse
  /\ cycle = [NoCycle EXCEPT !.closed = TRUE]
  /\ frags = <<>>
  /\ lastCall = NoCall
  /\ table = CommandSet
  /\ sought = NoLookup

SetState(st) ==
  /\ CommandBuffer' = st.CommandBuffer
  /\ ResponseBuffer' = st.ResponseBuffer
  /\ CmdBufIdxIn' = st.CmdBufIdxIn
  /\ CmdBufIdxOut' = st.CmdBufIdxOut
  /\ CLI_Status' = st.CLI_Status
  /\ pResponse' = st.pResponse

\* The host calls CLI_Input(pInput, Len(pInput)).
CLI_Input ==
  \E pInput \in Offered : \E r \in { CLI_InputStep(State, pInput) } :
    LET accepted == r.path # "ignored"
        begun == IF cycle.closed THEN [NoCycle EXCEPT !.origin = CLI_Status] ELSE cycle
    IN  /\ SetState(r.st)
        /\ cycle' = IF accepted
                      THEN [begun EXCEPT
                              !.fed = @ \o pInput,
                              !.overflow = @ \/ r.path = "overflow",
                              !.dispatch =
                                IF r.path = "dispatched"
                                  THEN Append(@, [call |-> r.call,
                                                  CmdBufIdxOut |-> CmdBufIdxOut,
                                                  response |-> Deref(r.st, r.st.pResponse)])
                                  ELSE @]
                      ELSE cycle
        /\ frags' = IF accepted THEN <<>> ELSE frags
        /\ lastCall' = [op |-> "CLI_Input", path |-> r.path, ret |-> r.ret,
                        returned |-> "none"]
        /\ UNCHANGED <<table, sought>>

UninitValues == { {}, Uint16Bits }

\* The polls whose results are recorded in frags: those that follow a
\* completed line or an overflow, and those made before any input.
Recording == cycle.fed = <<>> \/ cycle.overflow \/ cycle.dispatch # <<>>

\* The host polls CLI_Output.  Consecutive polls that return NULL are
\* recorded once.
CLI_Output ==
  \E error_status \in UninitValues : \E r \in { CLI_OutputStep(State, error_status) } :
    LET frag == [pOutput |-> r.pOutput, str |-> Deref(r.st, r.pOutput)]
    IN  /\ SetState(r.st)
        /\ frags' = IF ~Recording
                       \/ (r.pOutput = NULL /\ frags # <<>>
                             /\ frags[Len(frags)].pOutput = NULL)
                      THEN frags
                      ELSE Append(frags, frag)
        /\ cycle' = IF r.branch = "prompt" THEN [cycle EXCEPT !.closed = TRUE] ELSE cycle
        /\ lastCall' = [op |-> "CLI_Output", path |-> r.branch, ret |-> "none",
                        returned |-> r.pOutput.base]
        /\ UNCHANGED <<table, sought>>

Next == CLI_Input \/ CLI_Output

Spec == Init /\ [][Next]_vars

\* The host keeps polling CLI_Output.
FairSpec == Spec /\ WF_vars(CLI_Output)

(***************************************************************************)
(* The lookup of InvokeCommand over the command tables a build can link:   *)
(* up to MaxTable entries with names of TableNameSet, the handler of each  *)
(* position distinct.                                                      *)
(***************************************************************************)
MaxTable == 3

GET == <<"G", "E", "T">>

GET_LOG == <<"G", "E", "T", "_", "L", "O", "G">>

GET_LOGS == <<"G", "E", "T", "_", "L", "O", "G", "S">>

TableNameSet == { GET, GET_LOG, GET_LOGS }

SoughtNames == TableNameSet \cup { <<"G", "E">> }

HandlerNames == <<"Handler1", "Handler2", "Handler3", "Handler4", "Handler5">>

Tables ==
  UNION { { [i \in 1..n |-> [name |-> f[i], command |-> HandlerNames[i]]] :
            f \in [1..n -> TableNameSet] } : n \in 0..MaxTable }

LookupInit ==
  /\ CommandBuffer = InitState.CommandBuffer
  /\ ResponseBuffer = InitState.ResponseBuffer
  /\ CmdBufIdxIn = InitState.CmdBufIdxIn
  /\ CmdBufIdxOut = InitState.CmdBufIdxOut
  /\ CLI_Status = InitState.CLI_Status
  /\ pResponse = InitState.pResponse
  /\ cycle = [NoCycle EXCEPT !.closed = TRUE]
  /\ frags = <<>>
  /\ lastCall = NoCall
  /\ table \in Tables
  /\ sought = NoLookup

\* InvokeCommand seeks the command name in the table, lines 296 and 320-326;
\* line 329 then calls the handler found, once.
Seek ==
  \E name \in SoughtNames :
    /\ sought' = [name |-> name,
                  command |-> SeekCommand(table, name, 1, "ResponseError_CmdNotFound")]
    /\ UNCHANGED <<prog, cycle, frags, lastCall, table>>

LookupNext == Seek

LookupSpec == LookupInit /\ [][LookupNext]_vars

(***************************************************************************)
(* Properties                                                              *)
(***************************************************************************)
\* The echo-ready state: only ECHO set, both indices 0.
EchoReady == CLI_Status = CLI_STATUS_ECHO /\ CmdBufIdxIn = 0 /\ CmdBufIdxOut = 0

Frag(p, str) == [pOutput |-> p, str |-> str]

NewlineFrag == Frag(Ptr("String_Newline", 0), String_Newline)

PromptFrag == Frag(Ptr("String_Prompt", 0), String_Prompt)

NothingPending == Frag(NULL, <<>>)

\* A CLI_Input call made in this state appends its byte.
AcceptsInput ==
  LET r == CLI_InputStep(State, <<"x">>)
  IN  /\ r.path = "buffered"
      /\ r.st.CmdBufIdxIn = CmdBufIdxIn + 1
      /\ r.st.CommandBuffer[CmdBufIdxIn] = "x"

GetLogLine == <<"G", "E", "T", "_", "L", "O", "G">> \o String_Newline

\* The line GET_LOG was passed from the echo-ready state and nothing of it
\* was echoed before it was complete (as when it is passed in one call).
C1_Scenario ==
  /\ cycle.origin = CLI_STATUS_ECHO
  /\ cycle.fed = GetLogLine
  /\ cycle.dispatch # <<>>
  /\ cycle.dispatch[1].CmdBufIdxOut = 0

C1_Fragments ==
  << Frag(Ptr("CommandBuffer", 0), <<"G", "E", "T", "_", "L", "O", "G">>),
     NewlineFrag,
     Frag(Ptr("ResponseBuffer", 0), Alphabet26),
     NewlineFrag,
     PromptFrag,
     NothingPending >>

\* C1: after the line GET_LOG is passed in one call from the echo-ready
\* state, the polls of CLI_Output return the command name, the newline,
\* the 26 letters, the newline and the prompt, in this order, then NULL;
\* from the prompt on the interpreter is echo-ready and a CLI_Input call
\* appends its bytes.
C1_EndToEnd ==
  C1_Scenario =>
    /\ IsPrefix(frags, C1_Fragments)
    /\ Len(frags) >= 5 => EchoReady /\ AcceptsInput

C1_Drained == C1_Scenario /\ frags = C1_Fragments

\* What CLI_Input is called with in the check of C2.
C2_Inputs == { <<"x">>, String_Newline, GetLogLine, Fill(CLI_COMMAND_LENGTH + 1) }

\* C2: a CLI_Input call made while BUSY is set, or with length 0, returns
\* USBD_OK and changes neither buffer, neither index, nor the status flags
\* nor the stored response, and dispatches nothing.
C2_Backpressure ==
  \A pInput \in C2_Inputs \cup { <<>> } :
    (IS_STATUS(CLI_Status, CLI_STATUS_BUSY) \/ Len(pInput) = 0) =>
      LET r == CLI_InputStep(State, pInput)
      IN  r.st = State /\ r.ret = "USBD_OK" /\ r.call = <<>> /\ r.path = "ignored"

\* A call with bytes was made while BUSY was set and a line was buffered.
C2_IgnoredWhileBusy ==
  /\ lastCall.op = "CLI_Input"
  /\ lastCall.path = "ignored"
  /\ IS_STATUS(CLI_Status, CLI_STATUS_BUSY)
  /\ CmdBufIdxIn > 0

\* The accepted bytes of a sequence of input bytes.
Valid(s) == SelectSeq(s, IS_CHAR_VALID)

NValid(s) == Len(Valid(s))

IsFragment(f) == f.pOutput # NULL

\* The poll results that are fragments (not NULL).
Fragments(f) == SelectSeq(f, IsFragment)

BuffersReset ==
  /\ CommandBuffer = ZeroFilled(CLI_COMMAND_LENGTH)
  /\ ResponseBuffer = ZeroFilled(CLI_RESPONSE_LENGTH)

OverflowFrag == Frag(Ptr("ErrorMessage_CmdOvf", 0), STRING_CMD_OVERFLOW)

\* What the polls return after an overflow.
OverflowDrain ==
  << NothingPending, NewlineFrag, OverflowFrag, NewlineFrag, PromptFrag, NothingPending >>

\* A line was passed from the echo-ready state and overflowed.
C3_Scenario == cycle.origin = CLI_STATUS_ECHO /\ cycle.overflow

\* C3 as stated: after a line longer than the capacity, passed from the
\* echo-ready state, the fragments returned are the overflow message, the
\* newline and the prompt.
C3_AsStated ==
  (C3_Scenario /\ NValid(cycle.fed) > CLI_COMMAND_LENGTH) =>
    IsPrefix(Fragments(frags), << OverflowFrag, NewlineFrag, PromptFrag >>)

\* C3 (amended): after a line that overflows, passed from the echo-ready
\* state, the first poll returns NULL and the next ones return the
\* newline, the overflow message, the newline and the prompt; from the
\* prompt on both buffers are cleared, the interpreter is echo-ready and a
\* CLI_Input call appends its bytes; until the prompt BUSY stays set.
C3_OverflowDrain ==
  C3_Scenario =>
    /\ IsPrefix(frags, OverflowDrain)
    /\ Len(frags) >= 5 => EchoReady /\ BuffersReset /\ AcceptsInput
    /\ Len(frags) < 5 => IS_STATUS(CLI_Status, CLI_STATUS_BUSY)

C3_Drained ==
  C3_Scenario /\ NValid(cycle.fed) > CLI_COMMAND_LENGTH /\ frags = OverflowDrain

\* C4: whenever CLI_Output returns NULL, no error flag and none of NEWLINE,
\* RESPONSE, PROMPT is set after the call, and BUSY is clear.
C4_HandOff ==
  (lastCall.op = "CLI_Output" /\ lastCall.returned = "NULL") =>
    /\ ~IS_ANY_STATUS(CLI_Status, CLI_STATUS_ERROR_MASK \cup CLI_STATUS_NEWLINE
                                    \cup CLI_STATUS_RESPONSE \cup CLI_STATUS_PROMPT)
    /\ ~IS_STATUS(CLI_Status, CLI_STATUS_BUSY)

Spaces(n) == [i \in 1..n |-> SP]

\* Spaces only, then the newline.
IsBlankLine(s) ==
  \E n \in 0..Len(s) : s = Spaces(n) \o String_Newline

\* C5: for a line that is empty or all spaces, passed from the echo-ready
\* state, the stored response is empty, no handler is called, and after the
\* echo fragment the polls return the newline and the prompt only.
C5_BlankLine ==
  (/\ cycle.origin = CLI_STATUS_ECHO
   /\ IsBlankLine(cycle.fed)
   /\ cycle.dispatch # <<>>
   /\ cycle.dispatch[1].CmdBufIdxOut = 0) =>
    /\ cycle.dispatch[1].response = <<>>
    /\ cycle.dispatch[1].call = <<>>
    /\ frags # <<>> =>
         /\ frags[1].pOutput = Ptr("CommandBuffer", 0)
         /\ IsPrefix(Tail(frags), << NewlineFrag, PromptFrag, NothingPending >>)

\* C6 as stated, for the streams of capacity + 1 accepted bytes: no
\* handler is called while the host passes them, however they are cut.
C6_AsStated ==
  \A s \in Streams :
    (NValid(s) = CLI_COMMAND_LENGTH + 1 /\ ~cycle.closed /\ IsPrefix(cycle.fed, s)) =>
      cycle.dispatch = <<>>

\* C6 (amended): whenever the calls accepted since the buffer was empty
\* carry capacity or more accepted bytes (no earlier call having completed
\* a line), however they are cut, the call that reaches the capacity sets
\* CMDOVF and BUSY, no handler is called (also when its bytes contain the
\* newline), the first capacity bytes stay in the buffer until the prompt,
\* and the response of the drain that follows is the overflow message.
C6_Overflow ==
  /\ (lastCall.op = "CLI_Input" /\ lastCall.path # "ignored"
        /\ NValid(cycle.fed) >= CLI_COMMAND_LENGTH) =>
       /\ IS_STATUS(CLI_Status, CLI_STATUS_CMDOVF \cup CLI_STATUS_BUSY)
       /\ cycle.overflow
  /\ cycle.overflow => cycle.dispatch = <<>> /\ IsPrefix(frags, OverflowDrain)
  /\ (cycle.overflow /\ ~cycle.closed) =>
       /\ CmdBufIdxIn = CLI_COMMAND_LENGTH
       /\ \A i \in 0..(CLI_COMMAND_LENGTH - 1) : CommandBuffer[i] = Valid(cycle.fed)[i + 1]

\* Capacity + 1 bytes with the newline among them were passed in one call
\* and the overflow message has been returned.
C6_OverflowWithNewline ==
  /\ cycle.overflow
  /\ cycle.fed = <<"x">> \o String_Newline \o Fill(CLI_COMMAND_LENGTH - 2)
  /\ Len(frags) >= 3
  /\ frags[3] = OverflowFrag

ReadyState == [InitState EXCEPT !.CLI_Status = CLI_STATUS_ECHO]

\* The same bytes passed in one call from the echo-ready state.
OneCall(bytes) == CLI_InputStep(ReadyState, bytes)

HasNewline(s) == \E i \in 1..(Len(s) - 1) : s[i] = CR /\ s[i + 1] = LF

\* What the calls of a cycle, however cut, have in common with one call.
SameAsOneCall ==
  LET one == OneCall(cycle.fed)
  IN  IF HasNewline(Valid(cycle.fed))
        THEN /\ one.path = "dispatched"
             /\ Len(cycle.dispatch) = 1
             /\ cycle.dispatch[1].call = one.call
             /\ cycle.dispatch[1].response = Deref(one.st, one.st.pResponse)
             /\ ~cycle.closed =>
                  /\ CommandBuffer = one.st.CommandBuffer
                  /\ ResponseBuffer = one.st.ResponseBuffer
                  /\ CmdBufIdxIn = one.st.CmdBufIdxIn
        ELSE /\ one.path = "buffered"
             /\ cycle.dispatch = <<>>
             /\ ~cycle.closed =>
                  /\ CommandBuffer = one.st.CommandBuffer
                  /\ CmdBufIdxIn = one.st.CmdBufIdxIn

\* C7 as stated: for a line whose accepted bytes fit the capacity, passed
\* from the echo-ready state, the buffer, the handler called, its argument
\* and the stored response are those of passing the bytes in one call, and
\* the handler is called once, in the call that completes the newline.
C7_AsStated ==
  (cycle.origin = CLI_STATUS_ECHO /\ NValid(cycle.fed) <= CLI_COMMAND_LENGTH) =>
    SameAsOneCall

\* C7 (amended): the same, for a line with fewer accepted bytes than the
\* capacity.
C7_Chunking ==
  (cycle.origin = CLI_STATUS_ECHO /\ NValid(cycle.fed) < CLI_COMMAND_LENGTH) =>
    SameAsOneCall

\* A command with an argument was dispatched by a call that carried only
\* the last byte of the newline, everything before it echoed already.
C7_SplitInNewline ==
  /\ cycle.origin = CLI_STATUS_ECHO
  /\ cycle.fed = <<"G", "E", "T", "_", "L", "O", "G", SP, "x">> \o String_Newline
  /\ cycle.dispatch # <<>>
  /\ cycle.dispatch[1].CmdBufIdxOut = Len(cycle.fed) - 1

\* The text of a line, read off the bytes passed: up to the first newline.
LineText(s) ==
  LET v == Valid(s)
      n == CHOOSE i \in 1..(Len(v) - 1) :
             /\ v[i] = CR /\ v[i + 1] = LF
             /\ \A j \in 1..(i - 1) : ~(v[j] = CR /\ v[j + 1] = LF)
  IN  SubSeq(v, 1, n - 1)

Lead(t) ==
  CHOOSE n \in 0..Len(t) :
    (\A i \in 1..n : t[i] = SP) /\ (n = Len(t) \/ t[n + 1] # SP)

NameEnd(t) ==
  CHOOSE e \in Lead(t)..Len(t) :
    (\A i \in (Lead(t) + 1)..e : t[i] # SP) /\ (e = Len(t) \/ t[e + 1] = SP)

LineName(t) == SubSeq(t, Lead(t) + 1, NameEnd(t))

LineHasArg(t) == \E i \in (NameEnd(t) + 1)..Len(t) : t[i] # SP

TableNames == { CommandSet[i].name : i \in 1..NumOfCommands }

\* The drain of a dispatched line of text t whose stored response is msg.
DrainOf(t, msg) ==
  << Frag(Ptr("CommandBuffer", 0), SubSeq(t, 1, NameEnd(t))), NewlineFrag,
     Frag(Ptr("ResponseBuffer", 0), msg), NewlineFrag, PromptFrag, NothingPending >>

C9_Convergence ==
  [](IS_STATUS(CLI_Status, CLI_STATUS_BUSY) => <>EchoReady)

\* C10: when the prompt of a dispatched line is returned, BREAK is clear,
\* a non-empty stored response has been returned as a fragment, and no
\* fixed error message has been returned in its place.
C10_ResponseEmitted ==
  (cycle.dispatch # <<>> /\ lastCall.op = "CLI_Output" /\ lastCall.path = "prompt") =>
    /\ ~IS_STATUS(CLI_Status, CLI_STATUS_BREAK)
    /\ cycle.dispatch[1].response # <<>> =>
         \E i \in 1..Len(frags) :
           frags[i] = Frag(Ptr("ResponseBuffer", 0), cycle.dispatch[1].response)
    /\ \A i \in 1..Len(frags) :
         frags[i].pOutput.base \notin {"ErrorMessage_Other", "ErrorMessage_CmdOvf"}

ArgStart(t) ==
  CHOOSE i \in (NameEnd(t) + 1)..Len(t) :
    t[i] # SP /\ \A j \in (NameEnd(t) + 1)..(i - 1) : t[j] = SP

TextEnd(t) ==
  CHOOSE e \in 0..Len(t) : (e = 0 \/ t[e] # SP) /\ \A j \in (e + 1)..Len(t) : t[j] = SP

\* The argument of a line of text: what follows the name, without the
\* spaces around it.
LineArg(t) == IF LineHasArg(t) THEN SubSeq(t, ArgStart(t), TextEnd(t)) ELSE <<>>

FirstNewlineFrag ==
  CHOOSE n \in 1..Len(frags) :
    frags[n] = NewlineFrag /\ \A k \in 1..(n - 1) : frags[k] # NewlineFrag

\* A line with a name and an argument was passed from the echo-ready state
\* before any echo poll, and the newline of its drain has been returned.
C11_Scenario ==
  /\ cycle.origin = CLI_STATUS_ECHO
  /\ cycle.dispatch # <<>>
  /\ cycle.dispatch[1].CmdBufIdxOut = 0
  /\ LineHasArg(LineText(cycle.fed))
  /\ \E n \in 1..Len(frags) : frags[n] = NewlineFrag

\* C11: for a completed line "name argument" passed from the echo-ready
\* state, the polls return the name and then the argument as fragments of
\* the command buffer before the newline that precedes the response.
C11_TokenEcho ==
  C11_Scenario =>
    \E i, j \in 1..(FirstNewlineFrag - 1) :
      /\ i < j
      /\ frags[i].pOutput.base = "CommandBuffer"
      /\ frags[i].str = LineName(LineText(cycle.fed))
      /\ frags[j].pOutput.base = "CommandBuffer"
      /\ frags[j].str = LineArg(LineText(cycle.fed))

\* C12 as stated: a line whose accepted bytes, newline included, are at
\* most the capacity never sets CMDOVF and is dispatched.
C12_AsStated ==
  NValid(cycle.fed) <= CLI_COMMAND_LENGTH =>
    /\ ~cycle.overflow
    /\ HasNewline(Valid(cycle.fed)) => cycle.dispatch # <<>>

\* C12 (amended): a line whose accepted bytes, newline included, are fewer
\* than the capacity never sets CMDOVF and is dispatched by the call that
\* completes its newline; CMDOVF is set by the call that brings the
\* accepted bytes to the capacity, and only by it.
C12_OverflowAtCapacity ==
  /\ NValid(cycle.fed) < CLI_COMMAND_LENGTH =>
       /\ ~cycle.overflow
       /\ HasNewline(Valid(cycle.fed)) => cycle.dispatch # <<>>
  /\ IS_STATUS(CLI_Status, CLI_STATUS_CMDOVF) => cycle.overflow
  /\ cycle.overflow <=> (cycle.dispatch = <<>> /\ NValid(cycle.fed) >= CLI_COMMAND_LENGTH)

\* The longest line that is dispatched has been dispatched.
C12_LongestLine ==
  /\ cycle.origin = CLI_STATUS_ECHO
  /\ cycle.fed = Fill(CLI_COMMAND_LENGTH - 3) \o String_Newline
  /\ cycle.dispatch # <<>>
  /\ ~cycle.overflow

\* C13: in every state 0 <= CmdBufIdxOut <= CmdBufIdxIn <= CLI_COMMAND_LENGTH;
\* BufferInput stores each byte at CmdBufIdxIn before it increments it, so
\* every byte is stored below the capacity; whenever input is accepted a
\* position below the capacity is free, and the positions from CmdBufIdxIn
\* on hold '\0', so that the strings read in the buffer end inside it.
C13_IndexInvariant ==
  /\ 0 <= CmdBufIdxOut
  /\ CmdBufIdxOut <= CmdBufIdxIn
  /\ CmdBufIdxIn <= CLI_COMMAND_LENGTH
  /\ DOMAIN CommandBuffer = 0..(CLI_COMMAND_LENGTH - 1)
  /\ ~IS_STATUS(CLI_Status, CLI_STATUS_BUSY) => CmdBufIdxIn < CLI_COMMAND_LENGTH
  /\ \A i \in CmdBufIdxIn..(CLI_COMMAND_LENGTH - 1) : CommandBuffer[i] = NUL

\* The buffer is full after an overflow, part of it echoed before.
C13_FullAfterEcho ==
  /\ cycle.overflow
  /\ CmdBufIdxIn = CLI_COMMAND_LENGTH
  /\ 0 < CmdBufIdxOut

\* C14: no poll takes the final else branch of CLI_Output and the message
\* "Error : Unexpected problem occured." is never the response.
C14_NoUnexpected ==
  /\ lastCall.path # "unexpected"
  /\ pResponse.base # "ErrorMessage_Other"
  /\ \A i \in 1..Len(frags) : frags[i].pOutput.base # "ErrorMessage_Other"

\* Only ECHO is set and everything buffered has been echoed.
Drained == CLI_Status = CLI_STATUS_ECHO /\ CmdBufIdxOut = CmdBufIdxIn

\* C15: once only ECHO is set and CmdBufIdxOut = CmdBufIdxIn, a CLI_Output
\* call returns NULL and leaves the status, both indices, both buffers and
\* pResponse as they are.
C15_IdlePolling ==
  Drained =>
    \A error_status \in UninitValues :
      /\ CLI_OutputStep(State, error_status).pOutput = NULL
      /\ CLI_OutputStep(State, error_status).st = State

\* An idle poll after the drain of a dispatched line.
C15_IdleAfterDrain ==
  /\ EchoReady
  /\ cycle.closed
  /\ cycle.dispatch # <<>>
  /\ lastCall.op = "CLI_Output"
  /\ lastCall.path = "echo"
  /\ lastCall.returned = "NULL"

\* The positions of the table whose name is the name sought.
Matches == { i \in 1..Len(table) : table[i].name = sought.name }

\* C16: the handler found for a name is the one at the highest position
\* of the table that holds exactly that name, whether the name occurs once
\* or several times; a name that is only a prefix or an extension of
\* registered names finds no handler of the table.
C16_LastMatchWins ==
  sought # NoLookup =>
    IF Matches = {}
      THEN sought.command = "ResponseError_CmdNotFound"
      ELSE sought.command = HandlerNames[CHOOSE i \in Matches : \A k \in Matches : k <= i]

\* GET_LOG is registered at the first and the last position, a prefix of
\* it in between, and the last handler was found.
C16_DuplicateName ==
  /\ Len(table) = 3
  /\ table[1].name = GET_LOG /\ table[2].name = GET /\ table[3].name = GET_LOG
  /\ sought.name = GET_LOG
  /\ sought.command = HandlerNames[3]

\* C17: for a line with a command name, passed from the echo-ready state
\* with polls at any point between its calls, the fragment holding the
\* stored response has been returned when the prompt is returned.
C17_ResponseNotSkipped ==
  (/\ cycle.origin = CLI_STATUS_ECHO
   /\ cycle.dispatch # <<>>
   /\ LineName(LineText(cycle.fed)) # <<>>
   /\ lastCall.op = "CLI_Output"
   /\ lastCall.path = "prompt") =>
    \E i \in 1..Len(frags) :
      frags[i] = Frag(Ptr("ResponseBuffer", 0), cycle.dispatch[1].response)

\* C18: whenever CMDOVF, BREAK, NEWLINE, RESPONSE or PROMPT is set, BUSY is
\* set.
C18_ClosedWhileDraining ==
  IS_ANY_STATUS(CLI_Status, CLI_STATUS_CMDOVF \cup CLI_STATUS_BREAK \cup CLI_STATUS_NEWLINE
                              \cup CLI_STATUS_RESPONSE \cup CLI_STATUS_PROMPT) =>
    IS_STATUS(CLI_Status, CLI_STATUS_BUSY)

PromptReturned == lastCall.op = "CLI_Output" /\ lastCall.path = "prompt"

\* C19: a call that lowers CmdBufIdxIn or CmdBufIdxOut, or that leaves both
\* buffers zero-filled when they were not, is the CLI_Output call that
\* returns the prompt; and every CLI_Output call that returns the prompt
\* leaves both indices 0 and both buffers zero-filled.
C19_Lifecycle ==
  [][/\ (\/ CmdBufIdxIn' < CmdBufIdxIn
         \/ CmdBufIdxOut' < CmdBufIdxOut
         \/ (~BuffersReset /\ BuffersReset')) => PromptReturned'
     /\ PromptReturned' => (CmdBufIdxIn' = 0 /\ CmdBufIdxOut' = 0 /\ BuffersReset')]_vars

\* The prompt of a line with an argument has just been returned.
C19_ResetAtPrompt ==
  /\ PromptReturned
  /\ cycle.dispatch # <<>>
  /\ cycle.dispatch[1].call # <<>>
  /\ cycle.dispatch[1].call[1].arg # <<>>
  /\ CmdBufIdxIn = 0
  /\ BuffersReset

\* Calls made of bytes outside the accepted alphabet only.
InvalidInputs == { <<TAB>>, <<TAB, TAB>>, <<NUL>>, <<NUL, TAB>> }

Min(a, b) == IF a < b THEN a ELSE b

\* C20: a CLI_Input call of bytes outside the accepted alphabet leaves the
\* whole state unchanged; until the prompt CmdBufIdxIn is the number of
\* accepted bytes passed (at most the capacity) and, before the dispatch,
\* the buffer holds exactly those bytes; the handler, its argument and the
\* response of a dispatched line are those of the line without the bytes
\* outside the alphabet.
C20_InvalidDropped ==
  /\ \A pInput \in InvalidInputs :
       /\ CLI_InputStep(State, pInput).st = State
       /\ CLI_InputStep(State, pInput).call = <<>>
  /\ ~cycle.closed =>
       CmdBufIdxIn = Min(NValid(cycle.fed), CLI_COMMAND_LENGTH)
  /\ (~cycle.closed /\ cycle.dispatch = <<>>) =>
       \A i \in 0..(CmdBufIdxIn - 1) : CommandBuffer[i] = Valid(cycle.fed)[i + 1]
  /\ cycle.dispatch # <<>> =>
       /\ cycle.dispatch[1].call = OneCall(Valid(cycle.fed)).call
       /\ cycle.dispatch[1].response =
            Deref(OneCall(Valid(cycle.fed)).st, OneCall(Valid(cycle.fed)).st.pResponse)

\* GET_LOG with a tab inside its name was passed and TEST was called.
C20_TabInName ==
  /\ cycle.origin = CLI_STATUS_ECHO
  /\ cycle.fed = <<"G", "E", "T", TAB, "_", "L", "O", "G">> \o String_Newline
  /\ cycle.dispatch # <<>>
  /\ cycle.dispatch[1].call # <<>>
  /\ cycle.dispatch[1].call[1].command = "TEST"

====
